---- MODULE Spec2Model ----
(***************************************************************************)
(* kpersist: the watch-to-file pipelines of src/main.go.                   *)
(*                                                                         *)
(* watchResources (the dispatcher) ranges over the watch stream and, per   *)
(* event, creates a file, a buffered channel and a goroutine (Added),      *)
(* sends the object on the channel registered for its name (Modified) or   *)
(* closes and unregisters that channel (Deleted).  Each goroutine runs     *)
(* processResourceModifications (the Tracker): it ranges over its channel  *)
(* and writes one diff block per object to its *os.File.                   *)
(*                                                                         *)
(* Go semantics that the model keeps: a lookup of a missing map key gives  *)
(* the nil channel; a send on a nil channel blocks forever; close of a nil *)
(* channel panics; a panic in any goroutine terminates the process; a send *)
(* on a full buffered channel blocks; range over a closed channel drains   *)
(* the buffer and then ends; os.Create truncates an existing file and      *)
(* gives a handle with its own offset 0; a write lands at the handle's     *)
(* offset; when main returns the process ends without waiting for any      *)
(* goroutine.                                                              *)
(*                                                                         *)
(* watchPodsForLogs ranges over the pod watch stream and starts one        *)
(* goroutine per Added pod, which writes the pod's log to pod_<name>.txt.  *)
(* src/main.go holds two versions of that goroutine:                       *)
(* followAndPersistContainerLog (runs kubectl logs) and                    *)
(* followAndPersistPodLog (copies the log stream of the API); the variable *)
(* build says which one the program was built with.                        *)
(*                                                                         *)
(* Spec, SpecShort, SpecBacklog and FairSpec are the resource pipeline     *)
(* alone, with every file operation and MarshalJSON succeeding.  SpecAll   *)
(* is the whole program: both pipelines, the errors of MarshalJSON,        *)
(* WriteString and Sync in the Tracker, and the cancellation signal.       *)
(***************************************************************************)
EXTENDS Integers, Sequences, FiniteSets, TLC

\* ---- bounds of the model
MaxEvents == 4          \* events the watch stream delivers in one behaviour
MaxBurst == 1           \* events delivered after the backlog state (SpecBacklog)
MaxDoc == 2             \* distinct document bodies
MaxTime == 2            \* last value of the clock
MaxAll == 2             \* events the two watch streams deliver together (SpecAll)
MaxLines == 1           \* log lines one pod writes
MaxShort == 3           \* events the watch stream delivers in one behaviour (SpecShort)

\* ---- program constants
ChanCap == 10           \* make(chan *unstructured.Unstructured, 10)

Names == {"r1", "r2"}
PodNames == {"p1", "p2"}
Builds == {"kubectl", "stream"}
Docs == 1..MaxDoc
NilChan == 0            \* the nil channel: channels[name] of a missing key
NoObj == [name |-> "", doc |-> 0]
NoEvent == [type |-> "NONE", obj |-> NoObj]

VARIABLES
    proc,       \* "running" | "panicked": the process
    dpc,        \* watchResources: "recv" (at range ResultChan) | "dispatch" (in the switch)
    event,      \* watchResources: the event being handled (NoEvent between events)
    left,       \* events the stream still delivers (bound of the model)
    channels,   \* watchResources: channels map, name -> channel (NilChan when absent)
    chans,      \* the channels made so far: [buf, closed]; channel w belongs to Tracker w
    workers,    \* the processResourceModifications goroutines spawned so far
    files,      \* the file system: fileName -> [exists, data, synced]; synced is the
                \* content as of the last Sync of the file
    now,        \* the clock: the latest time shown; time.Now() never returns less
    sent,       \* history: sent[w] = the objects sent on channel w, in order
    build,      \* "kubectl": followAndPersistContainerLog | "stream": followAndPersistPodLog
    podLog,     \* history: the pod events watchPodsForLogs has processed, in order
    followers,  \* the pod log goroutines spawned so far
    podFiles    \* the pod log files: podFileName -> [exists, data, synced]

podVars == <<build, podLog, followers, podFiles>>

vars == <<proc, dpc, event, left, channels, chans, workers, files, now, sent,
          build, podLog, followers, podFiles>>

\* ---- helpers

Min(a, b) == IF a < b THEN a ELSE b

IsPrefix(s, t) == Len(s) <= Len(t) /\ SubSeq(t, 1, Len(s)) = s

\* filepath.Join(path, fmt.Sprintf("integration_%s.txt", name))
fileName(name) == <<"integration", name>>

FileNames == {fileName(n) : n \in Names}

\* filepath.Join(path, fmt.Sprintf("pod_%s.txt", pod.Name))
podFileName(name) == <<"pod", name>>

PodFileNames == {podFileName(n) : n \in PodNames}

\* One unit of file content: what one Write/WriteString call puts in the file.
\* by is the goroutine that wrote it (0: the dispatcher); ts the timestamp of a header.
Rec(kind, by, ts, body) == [kind |-> kind, by |-> by, ts |-> ts, body |-> body]

Hole == Rec("hole", 0, 0, <<>>)

\* jsondiff.Compare with SkipMatches: only what differs is rendered.
Compare(prevObj, currObj) ==
    IF prevObj = currObj THEN <<>> ELSE <<prevObj, currObj>>

\* os.Create: the file exists and is empty afterwards, whatever it held.
Create(fs, f) == [fs EXCEPT ![f].exists = TRUE, ![f].data = <<>>]

\* A write through a handle whose offset is off (in units): it overwrites what is
\* there, and leaves a hole when the file is shorter than the offset.
WriteAt(data, off, rec) ==
    IF off < Len(data)
    THEN [data EXCEPT ![off + 1] = rec]
    ELSE data \o [i \in 1..(off - Len(data)) |-> Hole] \o <<rec>>

Write(fs, f, off, rec) == [fs EXCEPT ![f].data = WriteAt(fs[f].data, off, rec)]

\* Faulty variant of Sync: the file is not flushed.
Sync_skipped(fs, f) == fs

\* out.Sync(): what the file holds is on durable storage afterwards.
Sync(fs, f) == [fs EXCEPT ![f].synced = fs[f].data]

\* Faulty variant of NextPrev: prev is left as it was.
NextPrev_stale(prevObj, currObj) == prevObj

\* prev = curr
NextPrev(prevObj, currObj) == currObj

\* Faulty variant of DeleteEntry: the entry stays in the map.
DeleteEntry_kept(m, name) == m

\* delete(channels, name)
DeleteEntry(m, name) == [m EXCEPT ![name] = NilChan]

\* Faulty variants of IsFull, against which the inbox properties are tested: a channel
\* that never blocks the sender, and a channel whose buffer takes one object more than
\* its capacity.
IsFull_never(buf) == FALSE

IsFull_offByOne(buf) == Len(buf) > ChanCap

\* A buffered channel with a full buffer: a send on it blocks.
IsFull(buf) == Len(buf) >= ChanCap

\* ---- initial states

NoPodFiles == [f \in PodFileNames |-> [exists |-> FALSE, data |-> <<>>, synced |-> <<>>]]

Init ==
    /\ proc = "running"
    /\ dpc = "recv"
    /\ event = NoEvent
    /\ left = MaxEvents
    /\ channels = [n \in Names |-> NilChan]
    /\ chans = <<>>
    /\ workers = <<>>
    /\ files = [f \in FileNames |-> [exists |-> FALSE, data |-> <<>>, synced |-> <<>>]]
    /\ now = 0
    /\ sent = <<>>
    /\ build = "kubectl"
    /\ podLog = <<>>
    /\ followers = <<>>
    /\ podFiles = NoPodFiles

\* The state after Added(r1), Added(r2) and Backlog Modified(r1) events, none of
\* which the Tracker of r1 has consumed yet (its goroutine is stalled or slow): the
\* channel of r1 is full, the channel of r2 is empty. Time has passed meanwhile: the
\* clock stands at its last value.
Backlog == ChanCap

BacklogObj(i) == [name |-> "r1", doc |-> 1 + (i % MaxDoc)]

BacklogBuf == [i \in 1..Backlog |-> BacklogObj(i)]

InitBacklog ==
    /\ proc = "running"
    /\ dpc = "recv"
    /\ event = NoEvent
    /\ left = MaxBurst
    /\ channels = [n \in Names |-> IF n = "r1" THEN 1 ELSE 2]
    /\ chans = <<[buf |-> BacklogBuf, closed |-> FALSE], [buf |-> <<>>, closed |-> FALSE]>>
    /\ workers =
         <<[name |-> "r1", out |-> fileName("r1"), off |-> 1, open |-> TRUE,
            obj |-> [name |-> "r1", doc |-> 1], prev |-> [name |-> "r1", doc |-> 1],
            curr |-> NoObj, ts |-> 0,
            pc |-> "range"],
           [name |-> "r2", out |-> fileName("r2"), off |-> 1, open |-> TRUE,
            obj |-> [name |-> "r2", doc |-> 1], prev |-> [name |-> "r2", doc |-> 1],
            curr |-> NoObj, ts |-> 0,
            pc |-> "range"]>>
    /\ files = [f \in FileNames |->
                  [exists |-> TRUE,
                   data |-> <<Rec("init", 0, 0,
                                  <<[name |-> f[2], doc |-> 1]>>)>>,
                   synced |-> <<>>]]
    /\ now = MaxTime
    /\ sent = <<BacklogBuf, <<>> >>
    /\ build = "kubectl"
    /\ podLog = <<>>
    /\ followers = <<>>
    /\ podFiles = NoPodFiles

\* ---- watchResources

\* The events the watch stream can deliver next.
EventInputs ==
    {[type |-> t, name |-> n, doc |-> d] :
        t \in {"ADDED", "MODIFIED"}, n \in Names, d \in Docs}
    \cup {[type |-> "DELETED", name |-> n, doc |-> 1] : n \in Names}
    \cup {[type |-> "BOOKMARK", name |-> "", doc |-> 0]}

\* for event := range watcher.ResultChan()
RecvEvent ==
    /\ proc = "running"
    /\ dpc = "recv"
    /\ left > 0
    /\ \E e \in EventInputs :
         event' = [type |-> e.type, obj |-> [name |-> e.name, doc |-> e.doc]]
    /\ left' = left - 1
    /\ dpc' = "dispatch"
    /\ UNCHANGED <<proc, channels, chans, workers, files, now, sent>>
    /\ UNCHANGED podVars

\* writeInitialFileContent: os.Create, then the pretty-printed object at offset 0.
writeInitialFileContent(fs, f, obj) ==
    Write(Create(fs, f), f, 0, Rec("init", 0, 0, <<obj>>))

\* case watch.Added
HandleAdded ==
    /\ proc = "running"
    /\ dpc = "dispatch"
    /\ event.type = "ADDED"
    /\ LET name == event.obj.name
           w == Len(workers) + 1
       IN /\ files' = writeInitialFileContent(files, fileName(name), event.obj)
          /\ chans' = Append(chans, [buf |-> <<>>, closed |-> FALSE])
          /\ channels' = [channels EXCEPT ![name] = w]
          /\ workers' = Append(workers,
                 [name |-> name, out |-> fileName(name), off |-> 1, open |-> TRUE,
                  obj |-> event.obj, prev |-> event.obj, curr |-> NoObj, ts |-> 0,
                  pc |-> "range"])
          /\ sent' = Append(sent, <<>>)
    /\ dpc' = "recv"
    /\ event' = NoEvent
    /\ UNCHANGED <<proc, left, now>>
    /\ UNCHANGED podVars

\* case watch.Modified: channels[name] <- typedObj
\* A send on the nil channel (no entry for the name) or on a full channel blocks: the
\* action is not enabled and the dispatcher stays in the switch. A send on a closed
\* channel panics.
HandleModified ==
    /\ proc = "running"
    /\ dpc = "dispatch"
    /\ event.type = "MODIFIED"
    /\ LET ch == channels[event.obj.name]
       IN /\ ch # NilChan
          /\ IF chans[ch].closed
             THEN /\ proc' = "panicked"
                  /\ UNCHANGED <<dpc, event, chans, sent>>
             ELSE /\ ~IsFull(chans[ch].buf)
                  /\ chans' = [chans EXCEPT ![ch].buf = Append(@, event.obj)]
                  /\ sent' = [sent EXCEPT ![ch] = Append(@, event.obj)]
                  /\ dpc' = "recv"
                  /\ event' = NoEvent
                  /\ UNCHANGED proc
    /\ UNCHANGED <<left, channels, workers, files, now>>
    /\ UNCHANGED podVars

\* case watch.Deleted: close(channels[name]); delete(channels, name)
\* close of the nil channel, and close of a closed channel, panic.
HandleDeleted ==
    /\ proc = "running"
    /\ dpc = "dispatch"
    /\ event.type = "DELETED"
    /\ LET ch == channels[event.obj.name]
       IN IF ch = NilChan \/ chans[ch].closed
          THEN /\ proc' = "panicked"
               /\ UNCHANGED <<dpc, event, channels, chans>>
          ELSE /\ chans' = [chans EXCEPT ![ch].closed = TRUE]
               /\ channels' = DeleteEntry(channels, event.obj.name)
               /\ dpc' = "recv"
               /\ event' = NoEvent
               /\ UNCHANGED proc
    /\ UNCHANGED <<left, workers, files, now, sent>>
    /\ UNCHANGED podVars

\* default: the event is printed and nothing else happens.
HandleDefault ==
    /\ proc = "running"
    /\ dpc = "dispatch"
    /\ event.type \notin {"ADDED", "MODIFIED", "DELETED"}
    /\ dpc' = "recv"
    /\ event' = NoEvent
    /\ UNCHANGED <<proc, left, channels, chans, workers, files, now, sent>>
    /\ UNCHANGED podVars

watchResources ==
    RecvEvent \/ HandleAdded \/ HandleModified \/ HandleDeleted \/ HandleDefault

\* ---- processResourceModifications

Workers == DOMAIN workers

\* for curr := range ch: the next object of the buffer
RangeRecv(w) ==
    /\ proc = "running"
    /\ w \in Workers
    /\ workers[w].pc = "range"
    /\ chans[w].buf # <<>>
    /\ workers' = [workers EXCEPT ![w].curr = Head(chans[w].buf), ![w].pc = "header"]
    /\ chans' = [chans EXCEPT ![w].buf = Tail(@)]
    /\ UNCHANGED <<proc, dpc, event, left, channels, files, now, sent>>
    /\ UNCHANGED podVars

\* out.WriteString("...Change captured at <time.Now()>:")
WriteHeader(w) ==
    /\ proc = "running"
    /\ w \in Workers
    /\ workers[w].pc = "header"
    /\ \E t \in now..Min(now + 1, MaxTime) :
         /\ now' = t
         /\ files' = Write(files, workers[w].out, workers[w].off, Rec("header", w, t, <<>>))
         /\ workers' = [workers EXCEPT ![w].off = @ + 1, ![w].ts = t, ![w].pc = "diff"]
    /\ UNCHANGED <<proc, dpc, event, left, channels, chans, sent>>
    /\ UNCHANGED podVars

\* out.WriteString("<diffs>...")
WriteDiff(w) ==
    /\ proc = "running"
    /\ w \in Workers
    /\ workers[w].pc = "diff"
    /\ files' = Write(files, workers[w].out, workers[w].off,
                      Rec("diff", w, 0, Compare(workers[w].prev, workers[w].curr)))
    /\ workers' = [workers EXCEPT ![w].off = @ + 1, ![w].pc = "sync"]
    /\ UNCHANGED <<proc, dpc, event, left, channels, chans, now, sent>>
    /\ UNCHANGED podVars

\* out.Sync(); prev = curr
SyncAndAdvance(w) ==
    /\ proc = "running"
    /\ w \in Workers
    /\ workers[w].pc = "sync"
    /\ files' = Sync(files, workers[w].out)
    /\ workers' = [workers EXCEPT ![w].prev = NextPrev(workers[w].prev, workers[w].curr),
                                  ![w].pc = "range"]
    /\ UNCHANGED <<proc, dpc, event, left, channels, chans, now, sent>>
    /\ UNCHANGED podVars

\* the range ends (channel closed and drained); the deferred out.Close() runs
RangeEnd(w) ==
    /\ proc = "running"
    /\ w \in Workers
    /\ workers[w].pc = "range"
    /\ chans[w].buf = <<>>
    /\ chans[w].closed
    /\ workers' = [workers EXCEPT ![w].open = FALSE, ![w].pc = "exited"]
    /\ UNCHANGED <<proc, dpc, event, left, channels, chans, files, now, sent>>
    /\ UNCHANGED podVars

processResourceModifications(w) ==
    RangeRecv(w) \/ WriteHeader(w) \/ WriteDiff(w) \/ SyncAndAdvance(w) \/ RangeEnd(w)

\* ---- the specification

Next ==
    \/ RecvEvent
    \/ HandleAdded
    \/ HandleModified
    \/ HandleDeleted
    \/ HandleDefault
    \/ \E w \in Workers : RangeRecv(w)
    \/ \E w \in Workers : WriteHeader(w)
    \/ \E w \in Workers : WriteDiff(w)
    \/ \E w \in Workers : SyncAndAdvance(w)
    \/ \E w \in Workers : RangeEnd(w)

Spec == Init /\ [][Next]_vars

\* The same program with a shorter watch stream.
InitShort ==
    /\ proc = "running"
    /\ dpc = "recv"
    /\ event = NoEvent
    /\ left = MaxShort
    /\ channels = [n \in Names |-> NilChan]
    /\ chans = <<>>
    /\ workers = <<>>
    /\ files = [f \in FileNames |-> [exists |-> FALSE, data |-> <<>>, synced |-> <<>>]]
    /\ now = 0
    /\ sent = <<>>
    /\ build = "kubectl"
    /\ podLog = <<>>
    /\ followers = <<>>
    /\ podFiles = NoPodFiles

SpecShort == InitShort /\ [][Next]_vars

\* The same program, started in the backlog state.
SpecBacklog == InitBacklog /\ [][Next]_vars

\* Fair scheduling: every goroutine that can take a step eventually takes one.
Fairness ==
    /\ WF_vars(watchResources)
    /\ \A w \in 1..MaxEvents : WF_vars(processResourceModifications(w))

FairSpec == Spec /\ Fairness

\* ---- watchPodsForLogs

\* The events the pod watch stream can deliver next.
PodEventInputs ==
    {[type |-> t, name |-> n] : t \in {"ADDED", "MODIFIED", "DELETED"}, n \in PodNames}
    \cup {[type |-> "BOOKMARK", name |-> ""]}

\* A faulty variant of IsAdded.
IsAdded_notDeleted(type) == type # "DELETED"

\* if event.Type == watch.Added
IsAdded(type) == type = "ADDED"

\* The goroutine as the go statement starts it: no file yet, no attempt yet.
\* attempts counts the log-streaming attempts started (cmd.Run, logRequest.Stream);
\* res is how the last attempt ended; seen is the length of podLog at that moment.
NewFollower(name) ==
    [name |-> name, out |-> podFileName(name), off |-> 0, attempts |-> 0,
     res |-> "none", seen |-> 0, pc |-> "start"]

\* One iteration of for event := range watcher.ResultChan(): the event is printed,
\* and an Added event starts a goroutine for the pod. Every other event changes nothing.
watchPodsForLogs ==
    /\ proc = "running"
    /\ left > 0
    /\ \E e \in PodEventInputs :
         /\ podLog' = Append(podLog, e)
         /\ followers' = IF IsAdded(e.type)
                         THEN Append(followers, NewFollower(e.name))
                         ELSE followers
    /\ left' = left - 1
    /\ UNCHANGED <<proc, dpc, event, channels, chans, workers, files, now, sent,
                   build, podFiles>>

\* ---- followAndPersistContainerLog / followAndPersistPodLog

Followers == DOMAIN followers

\* kubectl: os.Create(fileName), then cmd.Run() starts kubectl logs.
\* stream: logRequest.Stream(c), panic on its error, else os.Create(fileName) and io.Copy.
FollowerStart(f) ==
    /\ proc = "running"
    /\ f \in Followers
    /\ followers[f].pc = "start"
    /\ \E ok \in BOOLEAN :
         IF build = "stream" /\ ~ok
         THEN /\ followers' = [followers EXCEPT ![f].attempts = 1, ![f].res = "err",
                                                 ![f].seen = Len(podLog),
                                                 ![f].pc = "panicked"]
              /\ proc' = "panicked"
              /\ UNCHANGED podFiles
         ELSE /\ followers' = [followers EXCEPT ![f].attempts = 1, ![f].pc = "run"]
              /\ podFiles' = Create(podFiles, followers[f].out)
              /\ UNCHANGED proc
    /\ UNCHANGED <<dpc, event, left, channels, chans, workers, files, now, sent,
                   build, podLog>>

\* The attempt writes one line of the pod's log to the file (kubectl through
\* cmd.Stdout = out, the stream through io.Copy), at the offset of the handle.
FollowerLog(f) ==
    /\ proc = "running"
    /\ f \in Followers
    /\ followers[f].pc = "run"
    /\ followers[f].off < MaxLines
    /\ podFiles' = Write(podFiles, followers[f].out, followers[f].off,
                         Rec("log", f, 0, <<>>))
    /\ followers' = [followers EXCEPT ![f].off = @ + 1]
    /\ UNCHANGED <<proc, dpc, event, left, channels, chans, workers, files, now, sent,
                   build, podLog>>

\* The attempt ends, with or without an error.
\* kubectl: cmd.Run() returns; "Error when trying to get logs from pod ..." or
\*   "Done writing logs from pod ..." is written; the deferred Sync and Close run.
\* stream: io.Copy returns; without an error, out.Sync() and the function returns;
\*   with an error, "kpersist: error occurred ..." is written, out.Sync(), panic.
FollowerEnd(f) ==
    /\ proc = "running"
    /\ f \in Followers
    /\ followers[f].pc = "run"
    /\ \E ok \in BOOLEAN :
         LET fl == followers[f]
             marker == IF ~ok THEN <<Rec("error", f, 0, <<fl.name>>)>>
                       ELSE IF build = "kubectl" THEN <<Rec("done", f, 0, <<fl.name>>)>>
                       ELSE <<>>
             written == IF marker = <<>> THEN podFiles
                        ELSE Write(podFiles, fl.out, fl.off, marker[1])
         IN /\ podFiles' = Sync(written, fl.out)
            /\ followers' = [followers EXCEPT
                               ![f].off = @ + Len(marker),
                               ![f].res = IF ok THEN "ok" ELSE "err",
                               ![f].seen = Len(podLog),
                               ![f].pc = IF build = "stream" /\ ~ok
                                         THEN "panicked" ELSE "exited"]
            /\ proc' = IF build = "stream" /\ ~ok THEN "panicked" ELSE proc
    /\ UNCHANGED <<dpc, event, left, channels, chans, workers, files, now, sent,
                   build, podLog>>

\* ---- errors in processResourceModifications

\* A faulty variant of TrackerFail: the error is dropped and the process goes on.
TrackerFail_survives(w) ==
    /\ proc = "running"
    /\ w \in Workers
    /\ workers[w].pc \in {"header", "diff", "sync"}
    /\ workers' = [workers EXCEPT ![w].pc = "failed"]
    /\ UNCHANGED <<proc, dpc, event, left, channels, chans, files, now, sent>>
    /\ UNCHANGED podVars

\* MarshalJSON or the first WriteString returns an error (pc "header"), the second
\* WriteString returns an error (pc "diff"), or out.Sync() returns an error (pc "sync").
\* Each path ends in panic; on the error of the second WriteString the code first tries
\* to write "kpersist: error occurred ..." to the file, which may or may not succeed.
TrackerFail(w) ==
    /\ proc = "running"
    /\ w \in Workers
    /\ workers[w].pc \in {"header", "diff", "sync"}
    /\ \E wrote \in BOOLEAN :
         files' = IF workers[w].pc = "diff" /\ wrote
                  THEN Write(files, workers[w].out, workers[w].off,
                             Rec("error", w, 0, <<>>))
                  ELSE files
    /\ workers' = [workers EXCEPT ![w].pc = "failed"]
    /\ proc' = "panicked"
    /\ UNCHANGED <<dpc, event, left, channels, chans, now, sent>>
    /\ UNCHANGED podVars

\* ---- main

\* <-c.Done() returns on SIGINT or SIGTERM and main returns: the process ends, whatever
\* the goroutines are doing.
Cancel ==
    /\ proc = "running"
    /\ proc' = "exited"
    /\ UNCHANGED <<dpc, event, left, channels, chans, workers, files, now, sent>>
    /\ UNCHANGED podVars

\* ---- the whole program

InitAll ==
    /\ proc = "running"
    /\ dpc = "recv"
    /\ event = NoEvent
    /\ left = MaxAll
    /\ channels = [n \in Names |-> NilChan]
    /\ chans = <<>>
    /\ workers = <<>>
    /\ files = [f \in FileNames |-> [exists |-> FALSE, data |-> <<>>, synced |-> <<>>]]
    /\ now = 0
    /\ sent = <<>>
    /\ build \in Builds
    /\ podLog = <<>>
    /\ followers = <<>>
    /\ podFiles = NoPodFiles

NextAll ==
    \/ Next
    \/ watchPodsForLogs
    \/ \E f \in Followers : FollowerStart(f)
    \/ \E f \in Followers : FollowerLog(f)
    \/ \E f \in Followers : FollowerEnd(f)
    \/ \E w \in Workers : TrackerFail(w)
    \/ Cancel

SpecAll == InitAll /\ [][NextAll]_vars

\* ---- vocabulary of the properties

Active(w) == workers[w].pc # "exited"

TrackersOf(n) == {w \in Workers : workers[w].name = n}

\* The dispatcher is in the switch with a Modified/Deleted event for a name that has
\* no entry in the channels map.
PendingUnknown(type) ==
    /\ proc = "running"
    /\ dpc = "dispatch"
    /\ event.type = type
    /\ channels[event.obj.name] = NilChan

\* The dispatcher is in the switch with a Modified event for a registered name whose
\* channel holds ChanCap objects: the send cannot complete.
BlockedOnFull ==
    /\ proc = "running"
    /\ dpc = "dispatch"
    /\ event.type = "MODIFIED"
    /\ channels[event.obj.name] # NilChan
    /\ Len(chans[channels[event.obj.name]].buf) >= ChanCap

\* What Tracker w has written that is still in its file, in file order.
WrittenBy(w) == SelectSeq(files[workers[w].out].data, LAMBDA r : r.by = w)

\* The i-th object Tracker w diffs against: its parameter obj, then what was sent.
Snapshot(w, i) == IF i = 0 THEN workers[w].obj ELSE sent[w][i]

\* The file of Tracker w holds one block (header, then diff) per object sent to w, in
\* the order sent, with non-decreasing timestamps.
OneBlockPerEvent(w) ==
    LET mine == WrittenBy(w)
        n == Len(sent[w])
    IN /\ Len(mine) = 2 * n
       /\ \A i \in 1..n :
            /\ mine[2 * i - 1].kind = "header"
            /\ mine[2 * i].kind = "diff"
            /\ mine[2 * i].body = Compare(Snapshot(w, i - 1), Snapshot(w, i))
            /\ i > 1 => mine[2 * i - 3].ts <= mine[2 * i - 1].ts

\* Tracker w has consumed everything sent to it and is between two blocks.
Quiescent(w) == workers[w].pc \in {"range", "exited"} /\ chans[w].buf = <<>>

\* ---- C1

\* C1: for the events delivered to the Tracker of a registered entity (after its Added,
\* before its Deleted), once the Tracker has consumed them all, the entity's file holds
\* exactly one diff block per event, in delivery order, timestamps non-decreasing.
C1_OneBlockPerEventInOrder ==
    \A n \in Names :
        channels[n] # NilChan /\ Quiescent(channels[n]) => OneBlockPerEvent(channels[n])

\* ---- C2

\* C2: a Deleted event for a name with no registry entry is only logged: the step the
\* dispatcher takes on it leaves the process running, the registry and the set of
\* workers unchanged, and returns the dispatcher to the stream.
C2_DeletedUnknownIsNoOp ==
    [][PendingUnknown("DELETED") =>
         /\ proc' = "running"
         /\ channels' = channels
         /\ Len(workers') = Len(workers)]_vars

\* ---- C3

\* C3: a Modified event for a name with no registry entry is skipped: the dispatcher
\* is not blocked on it, it can take its next step.
C3_ModifiedUnknownIsSkipped ==
    PendingUnknown("MODIFIED") => ENABLED watchResources

\* ---- C4

\* C4: for every entity name at most one Tracker is active (spawned, not exited).
C4_AtMostOneActiveTracker ==
    \A n \in Names : Cardinality({w \in TrackersOf(n) : Active(w)}) <= 1

\* ---- C5

\* C5: no two workers hold an open handle to the same output file.
C5_OneOwnerPerFile ==
    \A w1, w2 \in Workers :
        (w1 # w2 /\ workers[w1].open /\ workers[w2].open)
            => workers[w1].out # workers[w2].out

\* ---- C6

\* C6: output files are append-only: in every step the content of every file before
\* the step is a prefix of its content after the step.
C6_AppendOnly ==
    [][\A f \in FileNames : IsPrefix(files[f].data, files'[f].data)]_vars

\* ---- C7

\* C7 as stated: while the dispatcher is blocked on one entity's full inbox, delivery to
\* another registered entity whose inbox is not full is not blocked: the dispatcher
\* can take a step.
C7_OthersNotBlocked ==
    (/\ BlockedOnFull
     /\ \E n \in Names : /\ n # event.obj.name
                         /\ channels[n] # NilChan
                         /\ Len(chans[channels[n]].buf) < ChanCap)
        => ENABLED watchResources

\* C7 as amended: while the dispatcher is blocked on one entity's full inbox it delivers
\* nothing to any entity: in every step from such a state the dispatcher stays where it
\* is with the same event, the registry is unchanged, nothing is sent and no inbox
\* grows; what happens is a Tracker's step.
C7_BlockedDeliversNothing ==
    [][BlockedOnFull =>
         /\ dpc' = dpc
         /\ event' = event
         /\ left' = left
         /\ channels' = channels
         /\ sent' = sent
         /\ \A c \in DOMAIN chans : Len(chans'[c].buf) <= Len(chans[c].buf)
         /\ \E w \in Workers : workers'[w] # workers[w]]_vars

\* The dispatcher is blocked on r1's full inbox while r2 is registered with room.
C7_Witness ==
    /\ BlockedOnFull
    /\ \E n \in Names : /\ n # event.obj.name
                        /\ channels[n] # NilChan
                        /\ Len(chans[channels[n]].buf) < ChanCap

\* ---- C8

\* The dispatcher is in the switch with a Modified event for a registered name.
PendingSend ==
    /\ proc = "running"
    /\ dpc = "dispatch"
    /\ event.type = "MODIFIED"
    /\ channels[event.obj.name] # NilChan

\* C8: no inbox ever holds more than ChanCap (10) objects; a pending send is enabled
\* exactly when fewer than ChanCap are queued; the step that completes a send appends
\* the object to the inbox and drops nothing; while the send is blocked the inbox
\* loses nothing but what its Tracker consumes, from the front.
C8_InboxBounded ==
    /\ [](\A c \in DOMAIN chans : Len(chans[c].buf) <= ChanCap)
    /\ [](PendingSend =>
            (ENABLED HandleModified
                <=> Len(chans[channels[event.obj.name]].buf) < ChanCap))
    /\ [][(PendingSend /\ dpc' = "recv") =>
            LET ch == channels[event.obj.name]
            IN /\ chans'[ch].buf = Append(chans[ch].buf, event.obj)
               /\ sent'[ch] = Append(sent[ch], event.obj)]_vars
    /\ [][BlockedOnFull =>
            LET ch == channels[event.obj.name]
            IN /\ chans'[ch].buf \in {chans[ch].buf, Tail(chans[ch].buf)}
               /\ event' = event]_vars

\* An inbox holds exactly ChanCap objects and the dispatcher is blocked sending one
\* more, which is still pending.
C8_Witness ==
    /\ BlockedOnFull
    /\ Len(chans[channels[event.obj.name]].buf) = ChanCap
    /\ Len(sent[channels[event.obj.name]]) >= ChanCap

\* ---- C9

\* The inbox of Tracker w has been closed (by a Deleted event).
InboxClosed(w) == w \in Workers /\ chans[w].closed

Exited(w) == w \in Workers /\ workers[w].pc = "exited"

\* C9: a Tracker exits only with its inbox closed and empty and its handle closed; at
\* the step in which it exits its file holds a diff block for every object sent to it;
\* and under fair scheduling a Tracker whose inbox was closed eventually exits.
C9_DrainsThenExits ==
    /\ [](\A w \in Workers :
            Exited(w) => chans[w].closed /\ chans[w].buf = <<>> /\ ~workers[w].open)
    /\ [][\A w \in Workers :
            (workers[w].pc # "exited" /\ workers'[w].pc = "exited")
                => OneBlockPerEvent(w)']_vars
    /\ \A w \in 1..MaxEvents : InboxClosed(w) ~> Exited(w)

\* ---- C10

\* Every Tracker of entity n has exited and n is no longer registered.
Gone(n) ==
    /\ channels[n] = NilChan
    /\ TrackersOf(n) # {}
    /\ \A w \in TrackersOf(n) : ~Active(w)

\* C10: once the Tracker of a deleted entity has exited, no step writes the entity's
\* file again, whatever event arrives for the name.
C10_NoWriteAfterExit ==
    [][\A n \in Names : Gone(n) => files'[fileName(n)] = files[fileName(n)]]_vars

\* ---- C17

\* The number of objects Tracker w has taken from its channel.
Consumed(w) == Len(sent[w]) - Len(chans[w].buf)

\* C17: for Added snapshot s0 and Modified snapshots s1..sn of a Tracker, the k-th diff
\* block it writes is the diff of s(k-1) against s(k): while the Tracker works on its
\* k-th object, prev is s(k-1) and curr is s(k); between blocks prev is the last object
\* processed; and the step that writes the k-th diff puts Compare(s(k-1), s(k)) in the
\* file, as the second record of the k-th block of the handle.
C17_DiffOfSuccessiveSnapshots ==
    /\ [](\A w \in Workers :
            LET k == Consumed(w)
            IN IF workers[w].pc \in {"header", "diff", "sync"}
               THEN /\ k >= 1
                    /\ workers[w].prev = Snapshot(w, k - 1)
                    /\ workers[w].curr = Snapshot(w, k)
               ELSE workers[w].prev = Snapshot(w, k))
    /\ [][\A w \in Workers :
            (workers[w].pc = "diff" /\ workers'[w].pc = "sync") =>
                LET k == Consumed(w)
                IN /\ workers[w].off = 2 * k
                   /\ files'[workers[w].out].data[workers[w].off + 1]
                        = Rec("diff", w, 0, Compare(Snapshot(w, k - 1), Snapshot(w, k)))]_vars

\* A Tracker is between its second and third block, and its second diff differs from
\* the diff against the Added snapshot: s0 # s1.
C17_Witness ==
    \E w \in Workers :
        /\ workers[w].pc = "range"
        /\ Consumed(w) >= 2
        /\ Snapshot(w, 0) # Snapshot(w, 1)
        /\ workers[w].prev = Snapshot(w, 2)

\* ---- C18

\* Every record of Tracker w that the file holds is on durable storage, at its place.
AllSynced(w) ==
    LET f == files[workers[w].out]
    IN \A i \in 1..Len(f.data) :
         f.data[i].by = w => (i <= Len(f.synced) /\ f.synced[i] = f.data[i])

\* C18: whenever a Tracker takes an object from its inbox, and whenever it waits for
\* one or has exited, every diff block it appended earlier has been synced.
C18_SyncedBeforeNextReceive ==
    /\ [](\A w \in Workers : workers[w].pc \in {"range", "exited"} => AllSynced(w))
    /\ [][\A w \in Workers :
            (workers[w].pc = "range" /\ workers'[w].pc = "header") => AllSynced(w)']_vars

\* A Tracker has taken its second object, and the block of the first is in the file.
C18_Witness ==
    \E w \in Workers :
        /\ workers[w].pc = "header"
        /\ Consumed(w) = 2
        /\ \E i \in 1..Len(files[workers[w].out].data) :
             files[workers[w].out].data[i].by = w

\* ---- C20

\* C20: every channel the channels map holds is open, so the dispatcher never sends on
\* a closed channel and never closes a channel twice: no dispatcher step on a Modified
\* or Deleted event finds the channel of the name closed.
C20_RegisteredInboxesOpen ==
    /\ \A n \in Names : channels[n] # NilChan => ~chans[channels[n]].closed
    /\ (dpc = "dispatch" /\ event.type \in {"MODIFIED", "DELETED"}
          /\ channels[event.obj.name] # NilChan)
         => ~chans[channels[event.obj.name]].closed

\* A Deleted event has closed a channel, and a further Modified or Deleted event for
\* the same name is in the switch.
C20_Witness ==
    /\ dpc = "dispatch"
    /\ event.type \in {"MODIFIED", "DELETED"}
    /\ \E w \in Workers : workers[w].name = event.obj.name /\ chans[w].closed

\* ---- C11

\* A Deleted event for pod n has been processed.
PodDeleted(n) ==
    \E i \in 1..Len(podLog) : podLog[i] = [type |-> "DELETED", name |-> n]

\* A Modified event for the pod of goroutine f has been processed after its attempt ended.
Signaled(f) ==
    \E i \in (followers[f].seen + 1)..Len(podLog) :
        podLog[i] = [type |-> "MODIFIED", name |-> followers[f].name]

\* C11: a pod goroutine whose attempt has ended while no Deleted event for the pod has
\* been processed, and for whose pod a Modified event is processed afterwards, starts
\* one more attempt (some step of the program takes it to its second attempt); and no
\* goroutine starts more attempts than that.
C11_RetriesOnceWhenSignaled ==
    \A f \in Followers :
        /\ followers[f].attempts <= 2
        /\ (/\ proc = "running"
            /\ followers[f].pc = "exited"
            /\ followers[f].attempts = 1
            /\ Signaled(f)
            /\ ~PodDeleted(followers[f].name))
           => ENABLED (NextAll /\ followers'[f].attempts = 2)

\* ---- C12

\* Goroutine f has written "Done writing logs from pod <name>" to its file.
DoneWritten(f) ==
    \E i \in 1..Len(podFiles[followers[f].out].data) :
        podFiles[followers[f].out].data[i] = Rec("done", f, 0, <<followers[f].name>>)

\* C12: a pod goroutine has written the "Done writing logs" marker, or has exited, only
\* if a Deleted event for its pod has been processed.
C12_DoneOnlyAfterDeleted ==
    \A f \in Followers :
        (DoneWritten(f) \/ followers[f].pc = "exited") => PodDeleted(followers[f].name)

\* ---- C13

\* Goroutine f has written an error line to its file.
ErrorWritten(f) ==
    \E i \in 1..Len(podFiles[followers[f].out].data) :
        podFiles[followers[f].out].data[i] = Rec("error", f, 0, <<followers[f].name>>)

\* C13: the step in which the log-streaming attempt of a pod goroutine ends with an
\* error leaves the error as a line in the pod's file, leaves the process running, and
\* changes neither another pod goroutine, nor a Tracker, nor either dispatch loop.
C13_StreamFailureRecordedNotFatal ==
    [][\A f \in Followers :
         (followers[f].res = "none" /\ followers'[f].res = "err") =>
            /\ ErrorWritten(f)'
            /\ proc' = "running"
            /\ \A g \in Followers \ {f} : followers'[g] = followers[g]
            /\ UNCHANGED <<workers, dpc, event, left, podLog>>]_vars

\* ---- C14

\* C14: the step in which a Tracker meets an error of MarshalJSON, WriteString or Sync
\* ends the process, and once the process has ended nothing changes any more: no
\* dispatch loop and no goroutine takes a step, and no file gets another block.
C14_TrackerErrorIsFatal ==
    /\ [](\A w \in Workers : workers[w].pc = "failed" => proc = "panicked")
    /\ [][proc # "panicked"]_vars

\* A Tracker has met an error after writing the header of a block.
C14_Witness ==
    \E w \in Workers :
        /\ workers[w].pc = "failed"
        /\ workers[w].off > 1
        /\ proc = "panicked"

\* ---- C15

\* C15: the process does not end on the cancellation signal while a Tracker has written
\* the header of a block but not its diff, or has written the block but not synced it.
C15_InFlightWriteCompletes ==
    proc = "exited" => \A w \in Workers : workers[w].pc \notin {"diff", "sync"}

\* ---- C16

\* C16: as long as the streams deliver events, the process has not been cancelled and
\* no Tracker has met a (fatal by design) I/O error, the pod dispatch loop can process
\* its next event whatever the resource dispatch loop and the Trackers are doing, and
\* the resource dispatch loop, when it is between events, can receive its next event
\* whatever the pod dispatch loop and the pod goroutines are doing.
C16_StreamsIndependent ==
    (left > 0 /\ proc # "exited" /\ \A w \in Workers : workers[w].pc # "failed")
      => /\ ENABLED watchPodsForLogs
         /\ dpc = "recv" => ENABLED RecvEvent

\* ---- C19

IsOtherKind(type) == type \notin {"ADDED", "MODIFIED", "DELETED"}

\* C19: the step in which a dispatch loop handles an event that is neither Added, nor
\* Modified, nor Deleted changes nothing but the loop's own position (and the history
\* of processed events): the registry, the channels, the goroutines and the files stay
\* as they are; and the resource loop is never blocked on such an event.
C19_OtherKindsIgnored ==
    /\ []((proc = "running" /\ dpc = "dispatch" /\ IsOtherKind(event.type))
            => ENABLED HandleDefault)
    /\ [][/\ (dpc = "dispatch" /\ IsOtherKind(event.type) /\ dpc' = "recv")
              => UNCHANGED <<proc, left, channels, chans, workers, files, now, sent,
                             build, podLog, followers, podFiles>>
          /\ (podLog' # podLog /\ IsOtherKind(podLog'[Len(podLog')].type))
              => UNCHANGED <<proc, dpc, event, channels, chans, workers, files, now,
                             sent, build, followers, podFiles>>]_vars

\* The pod loop has processed an event of another kind while a pod goroutine exists.
C19_Witness ==
    /\ Len(podLog) = 2
    /\ IsOtherKind(podLog[2].type)
    /\ followers # <<>>

====
